---- MODULE Spec2Model ----
\* A model of the 'validator' workspace:
\*   validation_derive  - the #[derive(FieldValidate)] pass (impl_field_validation,
\*                        get_field_types, find_validations_for_field,
\*                        find_original_name, the quotation helpers);
\*   validation         - is_not_null, ValidationError / ValidationErrorResponse,
\*                        and the blanket impls of the three traits for &T.
\* Strings the code formats are modelled as sequences of fragments, so that
\* "the message contains X" is membership of X among the fragments.
EXTENDS Integers, Sequences, FiniteSets, TLC

\* ------------------------------------------------------------------ bounds
MaxFields == 2      \* fields per struct
MaxAttrs == 2       \* attributes per struct
MaxItems == 2       \* nested items per attribute list
MaxRefDepth == 2    \* levels of & around an object

\* --------------------------------------------------------------- utilities
Range(s) == {s[i] : i \in 1..Len(s)}

SeqsUpTo(S, n) == UNION {[1..k -> S] : k \in 0..n}

\* Option<String>
None == [some |-> FALSE, value |-> ""]
Some(s) == [some |-> TRUE, value |-> s]

\* ------------------------------------------------ syn's view of the input
\* syn::Lit
NoLit == [kind |-> "None", value |-> ""]
StrLit(s) == [kind |-> "Str", value |-> s]
IntLit == [kind |-> "Int", value |-> "5"]

\* syn::NestedMeta
PathItem(n) == [kind |-> "Path", name |-> n, lit |-> NoLit, nested |-> <<>>]
NameValueItem(n, l) == [kind |-> "NameValue", name |-> n, lit |-> l, nested |-> <<>>]
ListItem(n, items) == [kind |-> "List", name |-> n, lit |-> NoLit, nested |-> items]
LitItem == [kind |-> "Lit", name |-> "", lit |-> StrLit("lit"), nested |-> <<>>]

\* items an author may write inside #[validate(...)]
ValidateItems ==
    { PathItem("not_null"), PathItem("NOT_NULL"),
      NameValueItem("max", IntLit), ListItem("length", <<>>), LitItem }

\* items an author may write inside #[serde(...)]
SerdeItems ==
    { PathItem("default"),
      NameValueItem("rename", StrLit("ext")),
      NameValueItem("rename", IntLit),
      NameValueItem("alias", StrLit("aka")),
      ListItem("bound", <<NameValueItem("serialize", StrLit("T"))>>),
      ListItem("with", <<NameValueItem("rename", StrLit("inner"))>>),
      LitItem }

\* syn::Attribute: its path and the outcome of parse_meta()
ListAttr(p, items) == [path |-> p, meta |-> "List", nested |-> items]
BareAttr(p, m) == [path |-> p, meta |-> m, nested |-> <<>>]
NoAttr == BareAttr("", "")

Attrs ==
    {ListAttr("validate", items) : items \in SeqsUpTo(ValidateItems, MaxItems)}
    \cup {ListAttr("serde", items) : items \in SeqsUpTo(SerdeItems, MaxItems)}
    \cup {BareAttr(p, m) : p \in {"validate", "serde"}, m \in {"Path", "NameValue", "Err"}}
    \cup {BareAttr("doc", "NameValue")}

\* syn::Type, with the tokens of the path (or of the referent)
OptionType == [kind |-> "Path", tokens |-> <<"Option", "<", "DumbObject", ">">>, lifetime |-> FALSE]
RefType == [kind |-> "Reference", tokens |-> <<"str">>, lifetime |-> TRUE]
ArrayType == [kind |-> "Array", tokens |-> <<"[", "u8", ";", "4", "]">>, lifetime |-> FALSE]
Types == {OptionType, RefType, ArrayType}

\* the i-th declared field name; "" is field.ident == None (a tuple field)
FieldName(i) == IF i = 1 THEN "val" ELSE IF i = 2 THEN "val_2" ELSE IF i = 3 THEN "val_3" ELSE "val_4"

\* syn::DeriveInput: a struct with named fields, a tuple struct, or an enum
Structs ==
    {[data |-> "struct",
      fields |-> [i \in 1..Len(tys) |-> [ident |-> IF named THEN FieldName(i) ELSE "", ty |-> tys[i]]]]
        : tys \in SeqsUpTo(Types, MaxFields), named \in BOOLEAN}
    \cup {[data |-> "enum", fields |-> <<>>]}

\* ------------------------------------------------------------- diagnostics
NoDiag == [msg |-> <<>>, help |-> <<>>]
Diag(m, h) == [msg |-> m, help |-> h]

\* A pass ends "aborted" by proc_macro_error's abort!, which carries a
\* diagnostic, or "panicked" by unwrap() on None or unreachable!().

\* -------------------------------------------------- validation_derive/types
\* ValidationType::code
code(validator) == IF validator = "NotNull" THEN "not_null" ELSE ""

\* FieldValidation::new
NewFieldValidation(validator) ==
    [code |-> code(validator), message |-> None, validator |-> validator]

\* ---------------------------------------------------- validation_derive/lit
\* lit_to_string: only a string literal has a value
lit_to_string(lit) == IF lit.kind = "Str" THEN Some(lit.value) ELSE None

\* ---------------------------------------------------- validation_derive/lib
\* '{:?}' of a syn::Ident: a rendering that embeds the identifier's text
DebugIdent(name) == <<"Ident(", name, ")">>

\* find_original_name: the loop from item i on, original_name being acc.
\* [panic, name]: .panic is lit_to_string(..).unwrap() on a non-string literal,
\* or unreachable!() on a bare literal.
RECURSIVE OriginalNameFrom(_, _, _)
OriginalNameFrom(meta_items, i, acc) ==
    IF i > Len(meta_items) THEN [panic |-> FALSE, name |-> acc]
    ELSE LET item == meta_items[i] IN
         CASE item.kind = "Path" -> OriginalNameFrom(meta_items, i + 1, acc)
           [] item.kind = "NameValue" ->
                IF item.name = "rename"
                THEN IF lit_to_string(item.lit).some
                     THEN OriginalNameFrom(meta_items, i + 1, lit_to_string(item.lit))
                     ELSE [panic |-> TRUE, name |-> None]
                ELSE OriginalNameFrom(meta_items, i + 1, acc)
           [] item.kind = "List" -> OriginalNameFrom(item.nested, 1, None)
           [] OTHER -> [panic |-> TRUE, name |-> None]

find_original_name(meta_items) == OriginalNameFrom(meta_items, 1, None)
\* the loop over the items skipping a rule it does not know
RECURSIVE ValidatorsFromSkippingUnknown(_, _, _)
ValidatorsFromSkippingUnknown(meta_items, i, validators) ==
    IF i > Len(meta_items)
    THEN [status |-> "ok", diag |-> NoDiag, validators |-> validators]
    ELSE LET item == meta_items[i] IN
         CASE item.kind = "Path" ->
                ValidatorsFromSkippingUnknown(meta_items, i + 1,
                    IF item.name = "not_null"
                    THEN Append(validators, NewFieldValidation("NotNull"))
                    ELSE validators)
           [] item.kind \in {"NameValue", "List"} ->
                [status |-> "aborted",
                 diag |-> Diag(<<"Unexpected Validation: ">> \o DebugIdent(item.name), <<>>),
                 validators |-> validators]
           [] OTHER -> [status |-> "panicked", diag |-> NoDiag, validators |-> validators]

\* The loop over the items of one #[validate(...)] list, from item i on.
RECURSIVE ValidatorsFrom(_, _, _)
ValidatorsFrom(meta_items, i, validators) ==
    IF i > Len(meta_items)
    THEN [status |-> "ok", diag |-> NoDiag, validators |-> validators]
    ELSE LET item == meta_items[i] IN
         CASE item.kind = "Path" ->
                IF item.name = "not_null"
                THEN ValidatorsFrom(meta_items, i + 1,
                                    Append(validators, NewFieldValidation("NotNull")))
                ELSE [status |-> "aborted",
                      diag |-> Diag(<<"Unexpected Validation: ", item.name>>, <<>>),
                      validators |-> validators]
           [] item.kind \in {"NameValue", "List"} ->
                [status |-> "aborted",
                 diag |-> Diag(<<"Unexpected Validation: ">> \o DebugIdent(item.name), <<>>),
                 validators |-> validators]
           [] OTHER -> [status |-> "panicked", diag |-> NoDiag, validators |-> validators]

\* The 'error' closure of find_validations_for_field
InvalidAttribute(rust_identity, msg) ==
    Diag(<<"Invalid attribute #[validate] on field '", rust_identity, "': ", msg>>, <<>>)

\* One iteration of 'for attr in &field.attrs' in find_validations_for_field.
\* l is the function's locals [rust_identity, field_identity, validators,
\* has_validate]; the result is the locals after the iteration and how it ended.
AttrStep(attr, l) ==
    IF attr.path # "validate" /\ attr.path # "serde"
    THEN [status |-> "ok", diag |-> NoDiag, locals |-> l]
    ELSE
      LET hv == l.has_validate \/ attr.path = "validate"
          l1 == [l EXCEPT !.has_validate = hv]
      IN
      CASE attr.meta = "List" ->
             IF attr.path = "serde"
             THEN LET s == find_original_name(attr.nested) IN
                  IF s.panic THEN [status |-> "panicked", diag |-> NoDiag, locals |-> l1]
                  ELSE [status |-> "ok", diag |-> NoDiag,
                        locals |-> IF s.name.some
                                   THEN [l1 EXCEPT !.field_identity = s.name.value]
                                   ELSE l1]
             ELSE LET w == ValidatorsFrom(attr.nested, 1, l1.validators)
                      l2 == [l1 EXCEPT !.validators = w.validators]
                  IN
                  IF w.status # "ok"
                  THEN [status |-> w.status, diag |-> w.diag, locals |-> l2]
                  ELSE IF l2.has_validate /\ l2.validators = <<>>
                  THEN [status |-> "aborted",
                        diag |-> InvalidAttribute(l.rust_identity,
                                                  "there must be at least one validation rule"),
                        locals |-> l2]
                  ELSE [status |-> "ok", diag |-> NoDiag, locals |-> l2]
        [] attr.meta = "Path" ->
             [status |-> "aborted", diag |-> Diag(<<"Unexpected nested value">>, <<>>),
              locals |-> l1]
        [] attr.meta = "NameValue" ->
             [status |-> "aborted", diag |-> Diag(<<"Unexpected name=value argument">>, <<>>),
              locals |-> l1]
        [] OTHER -> [status |-> "panicked", diag |-> NoDiag, locals |-> l1]

\* The locals of find_validations_for_field before its loop
InitLocals(ident) ==
    [rust_identity |-> ident, field_identity |-> ident,
     validators |-> <<>>, has_validate |-> FALSE]

NoLocals == InitLocals("")
\* the test on the fields with is_some() for is_none()
HasNamedFields(fields) == \E i \in 1..Len(fields) : fields[i].ident # ""

\* 'fields.iter().any(|field| field.ident.is_none())'
HasUnnamedFields(fields) == \E i \in 1..Len(fields) : fields[i].ident = ""

UnnamedFieldsDiag ==
    Diag(<<"struct has unnamed fields">>,
         <<"#[derive(FieldValidate)] can only be used on structs with named fields">>)

NotAStructDiag ==
    Diag(<<"#[derive(FieldValidation)] can only be used with structs">>, <<>>)
\* the match on field.ty with a catch-all arm that renders the type
TypeTextOfAnyType(ty) ==
    CASE ty.kind = "Reference" ->
            [ok |-> TRUE, text |-> IF ty.lifetime THEN <<"&">> \o ty.tokens ELSE ty.tokens]
      [] OTHER -> [ok |-> TRUE, text |-> ty.tokens]

\* The match on field.ty in get_field_types: the type's text, or no text for a
\* type that is neither a path nor a reference.
TypeText(ty) ==
    CASE ty.kind = "Path" -> [ok |-> TRUE, text |-> ty.tokens]
      [] ty.kind = "Reference" ->
            [ok |-> TRUE, text |-> IF ty.lifetime THEN <<"&">> \o ty.tokens ELSE ty.tokens]
      [] OTHER -> [ok |-> FALSE, text |-> ty.tokens]

UnsupportedTypeDiag(ty, field_identity) ==
    Diag(<<"Type '">> \o ty.tokens \o <<"' of field '", field_identity, "' not supported">>, <<>>)

\* get_field_types: the loop from field i on, 'types' being the map so far.
RECURSIVE FieldTypesFrom(_, _, _)
FieldTypesFrom(fields, i, types) ==
    IF i > Len(fields) THEN [status |-> "ok", diag |-> NoDiag, types |-> types]
    ELSE IF fields[i].ident = ""
    THEN [status |-> "panicked", diag |-> NoDiag, types |-> types]
    ELSE LET t == TypeText(fields[i].ty) IN
         IF ~t.ok
         THEN [status |-> "aborted",
               diag |-> UnsupportedTypeDiag(fields[i].ty, fields[i].ident),
               types |-> types]
         ELSE FieldTypesFrom(fields, i + 1,
                             [n \in DOMAIN types \cup {fields[i].ident} |->
                                 IF n = fields[i].ident THEN t.text ELSE types[n]])

get_field_types(fields) == FieldTypesFrom(fields, 1, <<>>)

\* ---------------------------------------------- validation_derive/quotation
\* FieldQuoter::new
NewFieldQuoter(ident, name, type) == [ident |-> ident, name |-> name, type |-> type]

NoQuoter == NewFieldQuoter("", "", <<>>)

\* NUMBER_TYPES: the twelve numeric kinds, bare, in Option<..> and in
\* Option<Option<..>>
NumberKinds ==
    {"usize", "u8", "u16", "u32", "u64", "isize", "i8", "i16", "i32", "i64", "f32", "f64"}

NUMBER_TYPES ==
    {<<n>> : n \in NumberKinds}
    \cup {<<"Option", "<", n, ">">> : n \in NumberKinds}
    \cup {<<"Option", "<", "Option", "<", n, ">", ">">> : n \in NumberKinds}

\* COW_TYPE, the regex Cow<'[a-z]+,str> searched anywhere in the text: the
\* identifiers that end in Cow, and the lifetimes made of lower-case letters
EndsInCow == {"Cow", "MyCow"}
LowerCaseLifetimes == {"'a", "'static"}

\* COW_TYPE.is_match
CowTypeIsMatch(text) ==
    \E i \in 1..(Len(text) - 5) :
        /\ text[i] \in EndsInCow
        /\ text[i + 1] = "<"
        /\ text[i + 2] \in LowerCaseLifetimes
        /\ text[i + 3] = ","
        /\ text[i + 4] = "str"
        /\ text[i + 5] = ">"

\* FieldQuoter::quote_validate_parameter: the tokens of the argument
quote_validate_parameter(field_quoter) ==
    IF Len(field_quoter.type) >= 2 /\ field_quoter.type[1] = "Option"
                                    /\ field_quoter.type[2] = "<"
    THEN <<field_quoter.ident>>
    ELSE IF CowTypeIsMatch(field_quoter.type)
    THEN <<"&", "self", ".", field_quoter.ident, ".", "as_ref", "(", ")">>
    ELSE IF (Len(field_quoter.type) >= 1 /\ field_quoter.type[1] = "&")
            \/ field_quoter.type \in NUMBER_TYPES
    THEN <<"&", "self", ".", field_quoter.ident>>
    ELSE <<"self", ".", field_quoter.ident>>

\* quote_err: the error a failing check constructs
quote_err(validation) == [variant |-> "FieldMismatch", message |-> validation.code]
\* create_not_null_validation reading the field by its external name
create_not_null_validation_by_name(field_quoter, validation) ==
    [rule |-> "is_not_null",
     validate_parameter |-> <<"&", "self", ".", field_quoter.name>>,
     reads |-> field_quoter.name,
     err |-> quote_err(validation)]

\* create_not_null_validation: one emitted check,
\*   if !::validation::is_not_null(&self.#ident) { let mut err = ..; errors.push(err) }
create_not_null_validation(field_quoter, validation) ==
    [rule |-> "is_not_null",
     validate_parameter |-> <<"&", "self", ".", field_quoter.ident>>,
     reads |-> field_quoter.ident,
     err |-> quote_err(validation)]

\* create_field_validation putting the new check in front of the others
create_field_validation_prepending(field_quoter, validation, validations) ==
    IF validation.validator = "NotNull"
    THEN <<create_not_null_validation(field_quoter, validation)>> \o validations
    ELSE validations

\* create_field_validation: push the check of the validation's rule
create_field_validation(field_quoter, validation, validations) ==
    IF validation.validator = "NotNull"
    THEN Append(validations, create_not_null_validation(field_quoter, validation))
    ELSE validations

\* 'for validation in &validations { create_field_validation(..) }'
RECURSIVE QuoteValidationsFrom(_, _, _, _)
QuoteValidationsFrom(field_quoter, validations, i, validation_rules) ==
    IF i > Len(validations) THEN validation_rules
    ELSE QuoteValidationsFrom(field_quoter, validations, i + 1,
            create_field_validation(field_quoter, validations[i], validation_rules))

\* ------------------------------------------------------ validation/not_null
\* is_not_null: val.is_some()
is_not_null(val) == val = "Some"

\* --------------------------------------------------------- validation/error
NoError == [variant |-> "", message |-> ""]
FieldMismatch(m) == [variant |-> "FieldMismatch", message |-> m]
InvalidState(m) == [variant |-> "InvalidState", message |-> m]

\* ValidationResult<()>
Ok == [ok |-> TRUE, err |-> NoError]
Err(e) == [ok |-> FALSE, err |-> e]
NoResult == [ok |-> FALSE, err |-> NoError]

\* ------------------------------------------------------ the emitted routine
\* The body quoted in impl_field_validation: the checks in order, each pushing
\* its err onto 'errors' when its rule fails.
RECURSIVE ErrorsFrom(_, _, _, _)
ErrorsFrom(checks, i, obj, errors) ==
    IF i > Len(checks) THEN errors
    ELSE ErrorsFrom(checks, i + 1, obj,
                    IF ~is_not_null(obj[checks[i].reads])
                    THEN Append(errors, checks[i].err)
                    ELSE errors)
\* validate_fields returning after its first check
validate_fields_first_check_only(checks, obj) ==
    LET errors == ErrorsFrom(SubSeq(checks, 1, 1), 1, obj, <<>>) IN
    IF errors = <<>> THEN Ok ELSE Err(FieldMismatch("not_null"))

\* fn validate_fields(&self) of the emitted impl
validate_fields(checks, obj) ==
    LET errors == ErrorsFrom(checks, 1, obj, <<>>) IN
    IF errors = <<>> THEN Ok ELSE Err(FieldMismatch("not_null"))

NoRoutine == [emitted |-> FALSE, checks |-> <<>>]

\* What rustc accepts of the emitted impl: is_not_null takes &Option<T>, so
\* every checked field is an Option; and the element type of 'errors'
\* (Vec::new() without annotation) is only fixed by a push, so there is at
\* least one check.
IsOptionText(text) == Len(text) >= 2 /\ text[1] = "Option" /\ text[2] = "<"

RoutineTypeChecks(checks, types) ==
    /\ checks # <<>>
    /\ \A i \in 1..Len(checks) : IsOptionText(types[checks[i].reads])

\* The values an instance of the struct can hold, field by field
Objects(types) ==
    {o \in [DOMAIN types -> {"Some", "None", "Value"}] :
        \A n \in DOMAIN types : (o[n] = "Value") <=> ~IsOptionText(types[n])}

\* ValidationErrorResponse
BAD_REQUEST == 400
UNPROCESSABLE_ENTITY == 422

NoResponse == [error_code |-> 0, error_message |-> ""]

\* ValidationErrorResponse::new
new(error_code, error_message) ==
    [error_code |-> error_code, error_message |-> error_message]

\* ValidationErrorResponse::default
default == [error_code |-> 500, error_message |-> "Internal Server Error"]
\* from() with the two status codes exchanged
from_codes_exchanged(e) ==
    CASE e.variant = "FieldMismatch" -> new(UNPROCESSABLE_ENTITY, e.message)
      [] e.variant = "InvalidState" -> new(BAD_REQUEST, e.message)

\* impl From<ValidationError> for ValidationErrorResponse
from(e) ==
    CASE e.variant = "FieldMismatch" -> new(BAD_REQUEST, e.message)
      [] e.variant = "InvalidState" -> new(UNPROCESSABLE_ENTITY, e.message)

\* the messages and codes callers use
Messages == {"not_null", "Bad String", "Bad Payload", ""}
Codes == {200, 400, 404, 422, 500}
ValidationErrors == {FieldMismatch(m) : m \in Messages} \cup {InvalidState(m) : m \in Messages}

\* ---------------------------------------------------- validation/validation
\* A type T implements the three traits by hand or by derive; what each of
\* its methods returns for each of its values is a table.
Capabilities == {"validate_fields", "validate_state", "validate"}
Objs == {"o1", "o2"}
Results == {Ok, Err(FieldMismatch("not_null")), Err(InvalidState("bad"))}

\* *self of a &T
Deref(r) == [r EXCEPT !.depth = @ - 1]

RECURSIVE RefValidate(_, _), RefValidateState(_, _), RefValidateFields(_, _)

\* <T as Validation>::validate for the type of r
Validate(T, r) == IF r.depth = 0 THEN T["validate"][r.obj] ELSE RefValidate(T, r)

\* <T as StateValidation>::validate_state for the type of r
ValidateState(T, r) ==
    IF r.depth = 0 THEN T["validate_state"][r.obj] ELSE RefValidateState(T, r)

\* <T as FieldValidation>::validate_fields for the type of r
ValidateFieldsOf(T, r) ==
    IF r.depth = 0 THEN T["validate_fields"][r.obj] ELSE RefValidateFields(T, r)

\* impl<T: Validation> Validation for &T
RefValidate(T, r) == Validate(T, Deref(r))

\* impl<T: StateValidation> StateValidation for &T
RefValidateState(T, r) == ValidateState(T, Deref(r))
\* validate_fields of &T forwarding to the wrong method of T
RefValidateFieldsViaState(T, r) == ValidateState(T, Deref(r))

\* impl<T: FieldValidation> FieldValidation for &T
RefValidateFields(T, r) == ValidateFieldsOf(T, Deref(r))

NoOutcome == [cap |-> "", result |-> NoResult]

\* ------------------------------------------------------------------- state
VARIABLES
    syntax,            \* the syn::DeriveInput handed to the derive
    pc,                \* where the pass is
    field_types,       \* impl_field_validation: field_types
    idx,               \* impl_field_validation: index of 'field' in 'for field in &fields'
    locals,            \* find_validations_for_field: its locals
    attr,              \* find_validations_for_field: the attr last iterated
    nattrs,            \* how many attributes the pass has iterated so far
    field_quoter,      \* impl_field_validation: field_quoter
    validation_rules,  \* impl_field_validation: validation_rules
    routine,           \* the token stream the derive returns to the compiler
    diag,              \* the diagnostic of an abort!
    object,            \* the instance validate_fields() was last called on
    result,            \* what that call returned
    requested,         \* history: the rule tokens written so far, <<field, token>>
    renameTarget,      \* history: last rename target written on the current field
    emptyBlock,        \* history: a #[validate(..)] list had no "not_null" token
    plain,             \* history: the same pass over the struct without its rename annotations
    verror,            \* a ValidationError some code holds
    converted,         \* the ValidationError last given to from()
    response,          \* the ValidationErrorResponse last constructed
    via,               \* the constructor that built it
    impls,             \* a type T: what its own trait impls return, per object
    receiver,          \* a T (depth 0) or a chain of & around it
    outcome,           \* the last trait call made through the receiver
    cfield,            \* a field whose type is being classified
    ctext,             \* get_field_types: the text of its type
    cquoter,           \* the FieldQuoter made for it
    parameter          \* what quote_validate_parameter returned for it

deriveVars ==
    <<syntax, pc, field_types, idx, locals, attr, nattrs, field_quoter,
      validation_rules, routine, diag, object, result, requested, renameTarget,
      emptyBlock, plain>>

errorVars == <<verror, converted, response, via>>

refVars == <<impls, receiver, outcome>>

classVars == <<cfield, ctext, cquoter, parameter>>

vars == <<deriveVars, errorVars, refVars, classVars>>

\* ---------------------------------------------------- history of the input
\* the rule tokens of one attribute, as <<field, token>> pairs
RuleTokens(field, a) ==
    IF a.path = "validate" /\ a.meta = "List"
    THEN LET P == {i \in 1..Len(a.nested) : a.nested[i].kind = "Path"}
             F[i \in 0..Len(a.nested)] ==
                IF i = 0 THEN <<>>
                ELSE IF i \in P THEN Append(F[i - 1], <<field, a.nested[i].name>>)
                ELSE F[i - 1]
         IN F[Len(a.nested)]
    ELSE <<>>

\* a #[validate(..)] list without any recognized rule token
IsEmptyBlock(a) ==
    /\ a.path = "validate"
    /\ a.meta = "List"
    /\ \A i \in 1..Len(a.nested) :
          ~(a.nested[i].kind = "Path" /\ a.nested[i].name = "not_null")

\* the targets of the top-level rename = "<string>" items of a #[serde(..)] list
RenameTargets(a) ==
    IF a.path = "serde" /\ a.meta = "List"
    THEN {a.nested[i].lit.value : i \in
            {j \in 1..Len(a.nested) : /\ a.nested[j].kind = "NameValue"
                                      /\ a.nested[j].name = "rename"
                                      /\ a.nested[j].lit.kind = "Str"}}
    ELSE {}

\* the target of the last of them
LastRenameTarget(a) ==
    LET J == {j \in 1..Len(a.nested) : /\ a.nested[j].kind = "NameValue"
                                       /\ a.nested[j].name = "rename"
                                       /\ a.nested[j].lit.kind = "Str"}
    IN a.nested[CHOOSE j \in J : \A k \in J : k <= j].lit.value

\* a #[serde(..)] list that renames the field: it has a rename = "<string>"
\* item, and nothing serde itself would reject
IsRenameAnnotation(a) ==
    /\ RenameTargets(a) # {}
    /\ \A i \in 1..Len(a.nested) :
          /\ a.nested[i].kind # "Lit"
          /\ (a.nested[i].kind = "NameValue" /\ a.nested[i].name = "rename")
                => a.nested[i].lit.kind = "Str"

NoPlain == [locals |-> NoLocals, validation_rules |-> <<>>, status |-> "ok"]

\* --------------------------------------------------------------- the pass
ErrorIdle ==
    /\ verror = NoError
    /\ converted = NoError
    /\ response = NoResponse
    /\ via = ""

RefIdle ==
    /\ impls = <<>>
    /\ receiver = [obj |-> "", depth |-> 0]
    /\ outcome = NoOutcome

NoField == [ident |-> "", ty |-> [kind |-> "", tokens |-> <<>>, lifetime |-> FALSE]]
NoText == [ok |-> FALSE, text |-> <<>>]

ClassIdle ==
    /\ cfield = NoField
    /\ ctext = NoText
    /\ cquoter = NoQuoter
    /\ parameter = <<>>

DeriveIdle ==
    /\ syntax = [data |-> "enum", fields |-> <<>>]
    /\ pc = "idle"
    /\ field_types = <<>>
    /\ idx = 0
    /\ locals = NoLocals
    /\ attr = NoAttr
    /\ nattrs = 0
    /\ field_quoter = NoQuoter
    /\ validation_rules = <<>>
    /\ routine = NoRoutine
    /\ diag = NoDiag
    /\ object = <<>>
    /\ result = NoResult
    /\ requested = <<>>
    /\ renameTarget = None
    /\ emptyBlock = FALSE
    /\ plain = NoPlain

Init ==
    /\ ErrorIdle
    /\ RefIdle
    /\ ClassIdle
    /\ plain = NoPlain
    /\ syntax \in Structs
    /\ pc = "derive"
    /\ field_types = <<>>
    /\ idx = 0
    /\ locals = NoLocals
    /\ attr = NoAttr
    /\ nattrs = 0
    /\ field_quoter = NoQuoter
    /\ validation_rules = <<>>
    /\ routine = NoRoutine
    /\ diag = NoDiag
    /\ object = <<>>
    /\ result = NoResult
    /\ requested = <<>>
    /\ renameTarget = None
    /\ emptyBlock = FALSE

\* impl_field_validation, the match on syntax.data
CheckStruct ==
    /\ pc = "derive"
    /\ IF syntax.data # "struct"
       THEN pc' = "aborted" /\ diag' = NotAStructDiag
       ELSE IF HasUnnamedFields(syntax.fields)
       THEN pc' = "aborted" /\ diag' = UnnamedFieldsDiag
       ELSE pc' = "types" /\ diag' = diag
    /\ plain' = [plain EXCEPT !.status = IF pc' = "types" THEN "ok" ELSE pc']
    /\ UNCHANGED <<syntax, field_types, idx, locals, attr, nattrs, field_quoter,
                   validation_rules, routine, object, result, requested,
                   renameTarget, emptyBlock,
                   errorVars, refVars, classVars>>

\* impl_field_validation: let field_types = get_field_types(&fields)
GetFieldTypes ==
    /\ pc = "types"
    /\ LET r == get_field_types(syntax.fields) IN
       /\ pc' = IF r.status = "ok" THEN "fields" ELSE r.status
       /\ diag' = r.diag
       /\ field_types' = IF r.status = "ok" THEN r.types ELSE field_types
       /\ idx' = IF r.status = "ok" THEN 1 ELSE idx
       /\ plain' = [plain EXCEPT !.status = r.status]
    /\ UNCHANGED <<syntax, locals, attr, nattrs, field_quoter, validation_rules,
                   routine, object, result, requested, renameTarget, emptyBlock,
                   errorVars, refVars, classVars>>

\* find_validations_for_field up to its loop, for the next field
BeginField ==
    /\ pc = "fields"
    /\ idx <= Len(syntax.fields)
    /\ locals' = InitLocals(syntax.fields[idx].ident)
    /\ attr' = NoAttr
    /\ field_quoter' = NoQuoter
    /\ renameTarget' = None
    /\ plain' = [plain EXCEPT !.locals = InitLocals(syntax.fields[idx].ident)]
    /\ pc' = "attrs"
    /\ UNCHANGED <<syntax, field_types, idx, nattrs, validation_rules,
                   routine, diag, object, result, requested, emptyBlock,
                   errorVars, refVars, classVars>>

\* find_validations_for_field: 'for attr in &field.attrs' yields the next attribute
NextAttr ==
    /\ pc = "attrs"
    /\ nattrs < MaxAttrs
    /\ \E a \in Attrs : attr' = a
    /\ nattrs' = nattrs + 1
    /\ pc' = "body"
    /\ UNCHANGED <<syntax, field_types, idx, locals, field_quoter, validation_rules,
                   routine, diag, object, result, requested, renameTarget,
                   emptyBlock,
                   plain, errorVars, refVars, classVars>>

\* find_validations_for_field: the body of the loop, on that attribute. The
\* loop variable goes out of scope when the iteration ends; an abort or a
\* panic leaves the pass where it stopped.
AttrBody ==
    /\ pc = "body"
    /\ LET r == AttrStep(attr, locals) IN
         /\ locals' = r.locals
         /\ pc' = IF r.status = "ok" THEN "attrs" ELSE r.status
         /\ diag' = r.diag
    /\ requested' = requested \o RuleTokens(locals.rust_identity, attr)
    /\ renameTarget' = IF RenameTargets(attr) # {} THEN Some(LastRenameTarget(attr))
                       ELSE renameTarget
    /\ emptyBlock' = (emptyBlock \/ IsEmptyBlock(attr))
    /\ attr' = IF AttrStep(attr, locals).status = "ok" THEN NoAttr ELSE attr
    /\ plain' = IF IsRenameAnnotation(attr) THEN plain
                ELSE [plain EXCEPT !.locals = AttrStep(attr, plain.locals).locals,
                                   !.status = AttrStep(attr, plain.locals).status]
    /\ UNCHANGED <<syntax, field_types, idx, nattrs, field_quoter,
                   validation_rules, routine, object, result,
                   errorVars, refVars, classVars>>

\* find_validations_for_field returns; impl_field_validation quotes the field
EndField ==
    /\ pc = "attrs"
    /\ LET ident == syntax.fields[idx].ident
           q == NewFieldQuoter(ident, locals.field_identity, field_types[ident])
       IN /\ field_quoter' = q
          /\ validation_rules' = QuoteValidationsFrom(q, locals.validators, 1, validation_rules)
          /\ plain' = [plain EXCEPT !.validation_rules =
                         QuoteValidationsFrom(
                            NewFieldQuoter(ident, plain.locals.field_identity, field_types[ident]),
                            plain.locals.validators, 1, plain.validation_rules)]
    /\ idx' = idx + 1
    /\ pc' = "fields"
    /\ UNCHANGED <<syntax, field_types, locals, attr, nattrs, routine, diag,
                   object, result, requested, renameTarget, emptyBlock,
                   errorVars, refVars, classVars>>

\* impl_field_validation: the quoted impl is returned
Emit ==
    /\ pc = "fields"
    /\ idx > Len(syntax.fields)
    /\ routine' = [emitted |-> TRUE, checks |-> validation_rules]
    /\ pc' = "emitted"
    /\ UNCHANGED <<syntax, field_types, idx, locals, attr, nattrs, field_quoter,
                   validation_rules, diag, object, result, requested,
                   renameTarget, emptyBlock,
                   plain, errorVars, refVars, classVars>>

\* a caller invokes validate_fields() on an instance of the struct
ValidateFields ==
    /\ pc = "emitted"
    /\ RoutineTypeChecks(routine.checks, field_types)
    /\ \E o \in Objects(field_types) :
         /\ object' = o
         /\ result' = validate_fields(routine.checks, o)
    /\ pc' = "validated"
    /\ UNCHANGED <<syntax, field_types, idx, locals, attr, nattrs, field_quoter,
                   validation_rules, routine, diag, requested, renameTarget,
                   emptyBlock,
                   plain, errorVars, refVars, classVars>>

Next ==
    \/ CheckStruct
    \/ GetFieldTypes
    \/ BeginField
    \/ NextAttr
    \/ AttrBody
    \/ EndField
    \/ Emit
    \/ ValidateFields

Spec == Init /\ [][Next]_vars

\* ------------------------------------------------- the error vocabulary
InitError ==
    /\ DeriveIdle
    /\ RefIdle
    /\ ClassIdle
    /\ ErrorIdle

\* a routine or hand-written state validation produces a ValidationError
RaiseError ==
    /\ \E e \in ValidationErrors : verror' = e
    /\ UNCHANGED <<converted, response, via, deriveVars, refVars, classVars>>

\* ValidationErrorResponse::from(verror), which consumes it
ConvertError ==
    /\ verror # NoError
    /\ response' = from(verror)
    /\ converted' = verror
    /\ verror' = NoError
    /\ via' = "from"
    /\ UNCHANGED <<deriveVars, refVars, classVars>>

\* ValidationErrorResponse::default()
DefaultResponse ==
    /\ response' = default
    /\ via' = "default"
    /\ UNCHANGED <<verror, converted, deriveVars, refVars, classVars>>

\* ValidationErrorResponse::new(code, message)
NewResponse ==
    /\ \E c \in Codes, m \in Messages : response' = new(c, m)
    /\ via' = "new"
    /\ UNCHANGED <<verror, converted, deriveVars, refVars, classVars>>

NextError ==
    \/ RaiseError
    \/ ConvertError
    \/ DefaultResponse
    \/ NewResponse

SpecError == InitError /\ [][NextError]_vars

\* ------------------------------------------- the traits through references
InitRef ==
    /\ DeriveIdle
    /\ ErrorIdle
    /\ ClassIdle
    /\ impls \in [Capabilities -> [Objs -> Results]]
    /\ receiver \in [obj : Objs, depth : {0}]
    /\ outcome = NoOutcome

\* &receiver
Borrow ==
    /\ receiver.depth < MaxRefDepth
    /\ receiver' = [receiver EXCEPT !.depth = @ + 1]
    /\ outcome' = NoOutcome
    /\ UNCHANGED <<impls, deriveVars, errorVars, classVars>>

\* receiver.validate_fields()
CallValidateFields ==
    /\ outcome' = [cap |-> "validate_fields", result |-> ValidateFieldsOf(impls, receiver)]
    /\ UNCHANGED <<impls, receiver, deriveVars, errorVars, classVars>>

\* receiver.validate_state()
CallValidateState ==
    /\ outcome' = [cap |-> "validate_state", result |-> ValidateState(impls, receiver)]
    /\ UNCHANGED <<impls, receiver, deriveVars, errorVars, classVars>>

\* receiver.validate()
CallValidate ==
    /\ outcome' = [cap |-> "validate", result |-> Validate(impls, receiver)]
    /\ UNCHANGED <<impls, receiver, deriveVars, errorVars, classVars>>

NextRef ==
    \/ Borrow
    \/ CallValidateFields
    \/ CallValidateState
    \/ CallValidate

SpecRef == InitRef /\ [][NextRef]_vars

\* ------------------------------------------------------ the type classifier
PathType(tokens) == [kind |-> "Path", tokens |-> tokens, lifetime |-> FALSE]
ReferenceType(tokens, lifetime) == [kind |-> "Reference", tokens |-> tokens, lifetime |-> lifetime]

\* Cow<lifetime, str>, possibly under another name or inside another type
CowTokens(name, lifetime) == <<name, "<", lifetime, ",", "str", ">">>

\* the types a field may be declared with
TypeDescriptors ==
    {PathType(t) : t \in NUMBER_TYPES}
    \cup {PathType(<<"u128">>), PathType(<<"String">>), PathType(<<"DumbObject">>),
          PathType(<<"Option", "<", "DumbObject", ">">>),
          PathType(<<"Option", "<", "String", ">">>),
          PathType(<<"std", "::", "option", "::", "Option", "<", "i32", ">">>)}
    \cup {PathType(CowTokens(n, l)) : n \in {"Cow", "MyCow"}, l \in {"'a", "'static", "'A"}}
    \cup {PathType(<<"Option", "<">> \o CowTokens("Cow", "'a") \o <<">">>),
          PathType(<<"Vec", "<">> \o CowTokens("Cow", "'a") \o <<">">>)}
    \cup {ReferenceType(t, l) :
            t \in {<<"str">>, <<"i32">>, <<"DumbObject">>, <<"Option", "<", "i32", ">">>},
            l \in BOOLEAN}
    \cup {ArrayType}

InitClass ==
    /\ DeriveIdle
    /\ ErrorIdle
    /\ RefIdle
    /\ cfield \in [ident : {FieldName(1), FieldName(2)}, ty : TypeDescriptors]
    /\ ctext = NoText
    /\ cquoter = NoQuoter
    /\ parameter = <<>>

\* get_field_types on the field: the match on field.ty
DescribeType ==
    /\ ctext = NoText
    /\ cquoter = NoQuoter
    /\ TypeText(cfield.ty).ok
    /\ ctext' = TypeText(cfield.ty)
    /\ UNCHANGED <<cfield, cquoter, parameter, deriveVars, errorVars, refVars>>

\* get_field_types on a field whose type it does not support: abort!
RejectType ==
    /\ ctext = NoText
    /\ cquoter = NoQuoter
    /\ ~TypeText(cfield.ty).ok
    /\ ctext' = [ok |-> FALSE, text |-> UnsupportedTypeDiag(cfield.ty, cfield.ident).msg]
    /\ UNCHANGED <<cfield, cquoter, parameter, deriveVars, errorVars, refVars>>

\* FieldQuoter::new(field_identity, name, field_type).quote_validate_parameter()
Classify ==
    /\ ctext.ok
    /\ cquoter = NoQuoter
    /\ cquoter' = NewFieldQuoter(cfield.ident, cfield.ident, ctext.text)
    /\ parameter' = quote_validate_parameter(cquoter')
    /\ UNCHANGED <<cfield, ctext, deriveVars, errorVars, refVars>>

NextClass ==
    \/ DescribeType
    \/ RejectType
    \/ Classify

SpecClass == InitClass /\ [][NextClass]_vars

\* ================================================================ claims
Failed == pc \in {"aborted", "panicked"}

\* the fields the author annotated not_null, from what was written
NotNullFields == {requested[i][1] : i \in {j \in 1..Len(requested) : requested[j][2] = "not_null"}}

\* C1: for a struct with at least one field annotated not_null, the emitted
\* validate_fields() returns Ok(()) iff every annotated field is Some, and
\* Err(FieldMismatch("not_null")) iff at least one is None, the same error
\* however many are None.
C1_NotNullIffAllPresent ==
    (pc = "validated" /\ NotNullFields # {}) =>
        /\ (result = Ok) <=> (\A f \in NotNullFields : object[f] = "Some")
        /\ (result = Err(FieldMismatch("not_null")))
              <=> (\E f \in NotNullFields : object[f] = "None")
        /\ result \in {Ok, Err(FieldMismatch("not_null"))}

\* two annotated fields, both absent, and the call failed
C1_Witness ==
    /\ pc = "validated"
    /\ Cardinality({f \in NotNullFields : object[f] = "None"}) >= 2
    /\ result = Err(FieldMismatch("not_null"))

\* C2: from(FieldMismatch(m)) is {400, m}, from(InvalidState(m)) is {422, m},
\* default() is {500, "Internal Server Error"}, for every m; conversion and
\* default produce no other status code.
C2_ConversionTable ==
    /\ via = "from" =>
          /\ converted.variant = "FieldMismatch" =>
                response = [error_code |-> 400, error_message |-> converted.message]
          /\ converted.variant = "InvalidState" =>
                response = [error_code |-> 422, error_message |-> converted.message]
          /\ converted.variant \in {"FieldMismatch", "InvalidState"}
    /\ via = "default" =>
          response = [error_code |-> 500, error_message |-> "Internal Server Error"]
    /\ via \in {"from", "default"} => response.error_code \in {400, 422, 500}

\* an InvalidState error was converted
C2_Witness ==
    /\ via = "from"
    /\ converted = InvalidState("Bad Payload")
    /\ response.error_code = 422

\* C3: rename annotations on a field change neither the field the emitted
\* check reads (the declared name) nor the result of validate_fields(): the
\* pass yields what it yields for the struct without its rename annotations.
C3_RenameDoesNotChangeChecks ==
    /\ plain.validation_rules = validation_rules
    /\ plain.locals.validators = locals.validators
    /\ plain.status = (IF Failed THEN pc ELSE "ok")
    /\ \A i \in 1..Len(validation_rules) :
          /\ i <= Len(requested)
          /\ validation_rules[i].reads = requested[i][1]
          /\ validation_rules[i].validate_parameter = <<"&", "self", ".", requested[i][1]>>
    /\ routine.emitted => routine.checks = plain.validation_rules
    /\ pc = "validated" => result = validate_fields(plain.validation_rules, object)

\* a renamed, annotated field was compiled and the routine called
C3_Witness ==
    /\ pc = "validated"
    /\ renameTarget.some
    /\ field_quoter.name # field_quoter.ident
    /\ \E i \in 1..Len(routine.checks) : routine.checks[i].reads = field_quoter.ident
    /\ object[field_quoter.ident] = "None"

\* C4: deriving on a struct with a field without a name aborts with a
\* diagnostic saying that only structs with named fields are supported, and
\* no routine is emitted.
C4_UnnamedFieldsAbort ==
    (/\ pc # "derive"
     /\ syntax.data = "struct"
     /\ \E i \in 1..Len(syntax.fields) : syntax.fields[i].ident = "") =>
        /\ pc = "aborted"
        /\ diag.msg = <<"struct has unnamed fields">>
        /\ diag.help = <<"#[derive(FieldValidate)] can only be used on structs with named fields">>
        /\ routine = NoRoutine

\* a tuple struct of two fields was rejected
C4_Witness ==
    /\ pc = "aborted"
    /\ Len(syntax.fields) = 2
    /\ \A i \in 1..Len(syntax.fields) : syntax.fields[i].ident = ""

\* the attribute is a #[validate(..)] list whose first item other than
\* not_null is a rule token that is not registered
UnknownRuleAt(a, i) ==
    /\ a.path = "validate"
    /\ a.meta = "List"
    /\ i \in 1..Len(a.nested)
    /\ a.nested[i].kind = "Path"
    /\ a.nested[i].name # "not_null"
    /\ \A j \in 1..(i - 1) : a.nested[j] = PathItem("not_null")

\* C5: a rule token that is not exactly "not_null" fails compilation with a
\* diagnostic whose message echoes the unknown token and the name of the
\* field carrying it.
C5_UnknownRuleDiagnostic ==
    \A i \in 1..Len(attr.nested) :
        (pc # "body" /\ UnknownRuleAt(attr, i)) =>
            /\ pc = "aborted"
            /\ attr.nested[i].name \in Range(diag.msg)
            /\ locals.rust_identity \in Range(diag.msg)

\* C6: a #[validate(..)] list without a recognized rule token fails
\* compilation, also when an earlier list on the field contributed a rule.
C6_EmptyBlockFails ==
    emptyBlock => ~routine.emitted

\* C7: when a field carries a rename annotation, the external name the
\* parser resolves is the rename target, whatever accompanies the rename in
\* its list and whatever annotations precede or follow; the internal
\* identity stays the declared name.
C7_NameIsRenameTarget ==
    /\ (pc = "attrs" /\ renameTarget.some) =>
          /\ locals.field_identity = renameTarget.value
          /\ locals.rust_identity = syntax.fields[idx].ident
    /\ (field_quoter # NoQuoter /\ renameTarget.some) =>
          /\ field_quoter.name = renameTarget.value
          /\ field_quoter.ident = syntax.fields[idx - 1].ident

\* the first field whose type is neither a path nor a reference
Unsupported(i) == syntax.fields[i].ty.kind \notin {"Path", "Reference"}
FirstUnsupported == CHOOSE i \in 1..Len(syntax.fields) :
                        Unsupported(i) /\ \A j \in 1..(i - 1) : ~Unsupported(j)

DiagNamesFieldAndType(i) ==
    /\ syntax.fields[i].ident \in Range(diag.msg)
    /\ Range(syntax.fields[i].ty.tokens) \subseteq Range(diag.msg)

\* C8 as stated: any struct with a field of unsupported type fails
\* compilation with a diagnostic naming the offending field and its type.
C8_AnyStructNamesFieldAndType ==
    (/\ pc \notin {"derive", "types"}
     /\ \E i \in 1..Len(syntax.fields) : Unsupported(i)) =>
        /\ pc = "aborted"
        /\ \E i \in 1..Len(syntax.fields) : Unsupported(i) /\ DiagNamesFieldAndType(i)

\* C8 amended: a struct with named fields, one of them of a type that is
\* neither a path nor a reference, fails compilation with a diagnostic
\* naming that field (the first such) and its type; no routine is emitted.
C8_NamedStructNamesFieldAndType ==
    (/\ pc \notin {"derive", "types"}
     /\ \A i \in 1..Len(syntax.fields) : syntax.fields[i].ident # ""
     /\ \E i \in 1..Len(syntax.fields) : Unsupported(i)) =>
        /\ pc = "aborted"
        /\ DiagNamesFieldAndType(FirstUnsupported)
        /\ routine = NoRoutine

\* a named struct whose second field is an array was rejected
C8_Witness ==
    /\ pc = "aborted"
    /\ Len(syntax.fields) = 2
    /\ syntax.fields[1].ident = "val"
    /\ ~Unsupported(1)
    /\ Unsupported(2)
    /\ "val_2" \in Range(diag.msg)

\* C9: the pass ends either with a complete routine, one check per
\* (field, rule) pair written, or in a failure without a routine; a
\* diagnostic raised anywhere leaves no routine for the fields before it.
C9_AllOrNothing ==
    /\ routine.emitted =>
          /\ pc \in {"emitted", "validated"}
          /\ diag = NoDiag
          /\ Len(routine.checks) = Len(requested)
          /\ \A i \in 1..Len(requested) :
                /\ requested[i][2] = "not_null"
                /\ routine.checks[i].rule = "is_not_null"
                /\ routine.checks[i].reads = requested[i][1]
    /\ ~routine.emitted => routine = NoRoutine
    /\ Failed => ~routine.emitted
    /\ diag # NoDiag => pc = "aborted"

\* a diagnostic was raised at a later field after checks had been quoted
C9_Witness ==
    /\ pc = "aborted"
    /\ idx = 2
    /\ validation_rules # <<>>
    /\ routine = NoRoutine

\* C10: calling validate_fields, validate_state or validate through a
\* reference returns what the call on the object itself returns.
C10_ReferenceSameAsOwned ==
    outcome # NoOutcome => outcome.result = impls[outcome.cap][receiver.obj]

\* the composite capability was called through a reference to a reference
\* on an object whose own validate() fails
C10_Witness ==
    /\ outcome.cap = "validate"
    /\ receiver.depth = 2
    /\ ~outcome.result.ok

\* C11: each compiled check passes the field's value the way the type
\* classifier selects for the field's type: the argument of the rule
\* invocation is quote_validate_parameter of the field.
C11_ArgumentIsClassifiers ==
    (pc = "fields" /\ field_quoter # NoQuoter) =>
        \A i \in 1..Len(validation_rules) :
            validation_rules[i].reads = field_quoter.ident =>
                validation_rules[i].validate_parameter = quote_validate_parameter(field_quoter)

\* the shapes of a declared type the classification table speaks of
IsReferenceType(ty) == ty.kind = "Reference"
IsNumericType(ty) == ty.kind = "Path" /\ ty.tokens \in NUMBER_TYPES
IsStringLikeType(ty) ==
    ty.kind = "Path" /\ \E l \in {"'a", "'static", "'A"} : ty.tokens = CowTokens("Cow", l)
IsOptionalType(ty) ==
    ty.kind = "Path" /\ Len(ty.tokens) >= 2 /\ ty.tokens[1] = "Option" /\ ty.tokens[2] = "<"

\* C12: the classifier gives every type one passing convention by the table:
\* an optional-wrapped type passes the container itself; a string-like
\* wrapper or a numeric kind (optional and nested-optional numerics included)
\* passes by reference; a reference type passes as it is, no reference
\* added; anything else passes by value.
C12_ClassifierFollowsTable ==
    cquoter # NoQuoter =>
        LET ty == cfield.ty
            x == cfield.ident
        IN
        /\ IsReferenceType(ty) => parameter = <<"self", ".", x>>
        /\ (IsNumericType(ty) \/ IsStringLikeType(ty)) =>
              (Len(parameter) >= 4 /\ SubSeq(parameter, 1, 4) = <<"&", "self", ".", x>>)
        /\ (IsOptionalType(ty) /\ ~IsNumericType(ty)) => parameter = <<x>>
        /\ ~(IsReferenceType(ty) \/ IsNumericType(ty) \/ IsStringLikeType(ty)
                \/ IsOptionalType(ty)) => parameter = <<"self", ".", x>>

\* the position of a field in the struct's declaration
DeclaredAt(f) == CHOOSE i \in 1..Len(syntax.fields) : syntax.fields[i].ident = f

\* the emitted routine exists and builds
Compiles == routine.emitted /\ RoutineTypeChecks(routine.checks, field_types)

\* C13: the checks of the emitted routine are the requested rule tokens,
\* field by field in declaration order and in annotation order within a
\* field: one check per written token, none dropped, none reordered, each on
\* a declared field and an existing rule; while the pass runs, checks are
\* only ever added at the end of the sequence.
C13_ChecksInWrittenOrder ==
    /\ [](Compiles =>
            /\ [i \in 1..Len(routine.checks) |->
                    <<routine.checks[i].reads, "not_null">>] = requested
            /\ \A i \in 1..Len(routine.checks) :
                  /\ \E k \in 1..Len(syntax.fields) :
                        syntax.fields[k].ident = routine.checks[i].reads
                  /\ routine.checks[i].rule = "is_not_null"
                  /\ \A j \in 1..Len(routine.checks) :
                        i < j => DeclaredAt(routine.checks[i].reads)
                                    <= DeclaredAt(routine.checks[j].reads))
    /\ [][/\ Len(validation_rules') >= Len(validation_rules)
          /\ SubSeq(validation_rules', 1, Len(validation_rules)) = validation_rules
          /\ routine'.emitted => routine'.checks = validation_rules']_vars

\* a routine that builds, with two checks on the first field and one on the
\* second
C13_Witness ==
    /\ pc = "emitted"
    /\ Compiles
    /\ Len(routine.checks) = 3
    /\ routine.checks[1].reads = FieldName(1)
    /\ routine.checks[2].reads = FieldName(1)
    /\ routine.checks[3].reads = FieldName(2)

\* two instances of the struct that differ, if at all, in unannotated fields
SameOnAnnotated(o1, o2) == \A f \in NotNullFields : o1[f] = o2[f]

\* C14: fields without a rule annotation contribute no check and do not
\* influence the result; a struct of named, supported-type fields with no
\* annotated field compiles, and its validate_fields() returns Ok(()) for
\* every assignment of its fields, absent optional fields included.
C14_UnannotatedFieldsAreFree ==
    routine.emitted =>
        /\ \A i \in 1..Len(routine.checks) : routine.checks[i].reads \in NotNullFields
        /\ \A o1, o2 \in Objects(field_types) :
              SameOnAnnotated(o1, o2) =>
                  validate_fields(routine.checks, o1) = validate_fields(routine.checks, o2)
        /\ (Len(syntax.fields) >= 1 /\ requested = <<>> /\ ~emptyBlock) =>
              /\ Compiles
              /\ \A o \in Objects(field_types) : validate_fields(routine.checks, o) = Ok

====
